---- MODULE Spec2Model ----
(***************************************************************************)
(* zonefile: YAML zone description -> unbound local-zone configuration.    *)
(*                                                                         *)
(*   src/parse.js            parseZone, createZone, create* and hostString *)
(*   src/util.js             toArray                                       *)
(*   src/unnamed/part_000    the renderer `unbound` (unbound.js)           *)
(*   src/index.js            the command line script (serial file, run)    *)
(*                                                                         *)
(* JavaScript values are modelled as tagged records: [num |-> 5],          *)
(* [str |-> "a"], [arr |-> <<...>>] and [undef |-> TRUE].  An object (a    *)
(* YAML mapping) is the sequence of its [key, val] entries in insertion    *)
(* order, which is the order of `for ... in` and Object.keys.  Strings are *)
(* TLA+ strings; Len, Head, Tail, SubSeq and \o act on them as on          *)
(* sequences of characters.                                                *)
(***************************************************************************)
EXTENDS Integers, Sequences, FiniteSets, TLC

VARIABLES
    zoneData,    \* the input value handed to parseZone (mutable, it is a JS object)
    SERIAL,      \* the serial floor handed to parseZone
    calls,       \* log of the parseZone calls: argument, serial, outcome
    writer,      \* what has been written to the output sink, and whether rendering threw
    pc,          \* position of the command line script
    clock,       \* the date `new Date()` returns
    serialFile,  \* content of the serial file, Undefined when it does not exist
    runs,        \* log of the script runs started so far
    options      \* the command line options of the running script

vars == <<zoneData, SERIAL, calls, writer, pc, clock, serialFile, runs, options>>

-----------------------------------------------------------------------------
(* JavaScript values                                                       *)

Undefined == [undef |-> TRUE]
Num(n) == [num |-> n]
Str(s) == [str |-> s]
Arr(a) == [arr |-> a]

IsUndefined(v) == DOMAIN v = {"undef"}
IsNum(v) == DOMAIN v = {"num"}
IsStr(v) == DOMAIN v = {"str"}
IsArr(v) == DOMAIN v = {"arr"}

Digits == {"0", "1", "2", "3", "4", "5", "6", "7", "8", "9"}

RECURSIVE AllDigits(_)
AllDigits(s) == IF s = "" THEN TRUE ELSE Head(s) \in Digits /\ AllDigits(Tail(s))

\* isNaN(v): Number(v) is NaN.  A number is not NaN, undefined is, and a string
\* is NaN unless it converts to a number; over the strings of this model (names,
\* IP literals, digit strings) those are the empty string and the digit strings.
isNaN(v) ==
    IF IsNum(v) THEN FALSE
    ELSE IF IsStr(v) THEN ~AllDigits(v.str)
    ELSE TRUE

\* Array.prototype.at(k) for k = 0, 1, 2 and -1: undefined when out of range.
At(info, k) ==
    IF k >= 0
    THEN IF k + 1 <= Len(info) THEN info[k + 1] ELSE Undefined
    ELSE IF Len(info) + k + 1 >= 1 THEN info[Len(info) + k + 1] ELSE Undefined

Front(info) == SubSeq(info, 1, Len(info) - 1)

Includes(seq, v) == \E i \in 1..Len(seq) : seq[i] = v

\* String(v) / template interpolation of a scalar.
ToStr(v) ==
    IF IsNum(v) THEN ToString(v.num)
    ELSE IF IsStr(v) THEN v.str
    ELSE "undefined"

RECURSIVE JoinTokens(_, _)
JoinTokens(seq, sep) ==
    IF seq = <<>> THEN ""
    ELSE IF Len(seq) = 1 THEN ToStr(seq[1])
    ELSE ToStr(seq[1]) \o sep \o JoinTokens(Tail(seq), sep)

\* String(obj) of a plain object.
ObjectToString == "[object Object]"

StartsWith(s, c) == s # "" /\ Head(s) = c
EndsWith(s, c) == s # "" /\ SubSeq(s, Len(s), Len(s)) = c

RECURSIVE SplitFrom(_, _, _, _)
SplitFrom(s, sep, cur, acc) ==
    IF s = "" THEN Append(acc, cur)
    ELSE IF Head(s) = sep THEN SplitFrom(Tail(s), sep, "", Append(acc, cur))
    ELSE SplitFrom(Tail(s), sep, cur \o Head(s), acc)

\* String.prototype.split(sep) for a one-character separator.
Split(s, sep) == SplitFrom(s, sep, "", <<>>)

RECURSIVE Join(_, _)
Join(parts, sep) ==
    IF parts = <<>> THEN ""
    ELSE IF Len(parts) = 1 THEN parts[1]
    ELSE parts[1] \o sep \o Join(Tail(parts), sep)

RECURSIVE ReplaceFirst(_, _, _)
\* String.prototype.replace(from, to) with a one-character string pattern:
\* the first occurrence only.
ReplaceFirst(s, from, to) ==
    IF s = "" THEN ""
    ELSE IF Head(s) = from THEN to \o Tail(s)
    ELSE Head(s) \o ReplaceFirst(Tail(s), from, to)

RECURSIVE PadEnd(_, _)
PadEnd(s, n) == IF Len(s) >= n THEN s ELSE PadEnd(s \o " ", n)

RECURSIVE TrimStart(_)
TrimStart(s) == IF s # "" /\ Head(s) = " " THEN TrimStart(Tail(s)) ELSE s
RECURSIVE TrimEnd(_)
TrimEnd(s) == IF EndsWith(s, " ") THEN TrimEnd(SubSeq(s, 1, Len(s) - 1)) ELSE s
Trim(s) == TrimEnd(TrimStart(s))

RECURSIVE Contains(_, _)
\* String.prototype.includes
Contains(s, sub) ==
    IF Len(s) < Len(sub) THEN FALSE
    ELSE SubSeq(s, 1, Len(sub)) = sub \/ Contains(Tail(s), sub)

\* util.js
toArray(obj) == IF IsUndefined(obj) THEN <<>> ELSE IF IsArr(obj) THEN obj.arr ELSE <<obj>>

-----------------------------------------------------------------------------
(* ipaddr.js, as parse.js and unbound.js use it: isValid, parse, kind and  *)
(* toString, over the literals of this model.  Two literals of one address *)
(* have the same string form.                                              *)

IpTable ==
    << [lit |-> "192.168.1.10", kind |-> "ipv4", str |-> "192.168.1.10"],
       [lit |-> "192.168.1.1",  kind |-> "ipv4", str |-> "192.168.1.1"],
       [lit |-> "fd00::10",     kind |-> "ipv6", str |-> "fd00::10"],
       [lit |-> "fd00:0::10",   kind |-> "ipv6", str |-> "fd00::10"],
       [lit |-> "192.168.1.2",  kind |-> "ipv4", str |-> "192.168.1.2"],
       [lit |-> "192.168.1.11", kind |-> "ipv4", str |-> "192.168.1.11"],
       [lit |-> "172.16.0.1",   kind |-> "ipv4", str |-> "172.16.0.1"],
       [lit |-> "fd00::1",      kind |-> "ipv6", str |-> "fd00::1"],
       [lit |-> "fd00::2",      kind |-> "ipv6", str |-> "fd00::2"],
       [lit |-> "fd00::11",     kind |-> "ipv6", str |-> "fd00::11"],
       [lit |-> "fdff::1",      kind |-> "ipv6", str |-> "fdff::1"] >>

isValid(v) == IsStr(v) /\ \E i \in 1..Len(IpTable) : IpTable[i].lit = v.str

\* ipaddr.parse(ip) of a valid literal: the address, with kind() and toString().
ipParse(v) ==
    LET i == CHOOSE j \in 1..Len(IpTable) : IpTable[j].lit = v.str
    IN [kind |-> IpTable[i].kind, str |-> IpTable[i].str]

-----------------------------------------------------------------------------
(* parse.js: record constructors                                           *)

hostString(host, zone) ==
    IF host = "." THEN zone
    ELSE IF EndsWith(host, ".") THEN host
    ELSE host \o "." \o zone \o "."

createMX(zone, hostname, prio, ttl) ==
    [zone |-> zone, name |-> hostString(hostname, zone), prio |-> prio, ttl |-> ttl]

createNameserver(zone, hostname, ttl) ==
    [zone |-> zone, name |-> hostString(hostname, zone), ttl |-> ttl]

createA(zone, hostname, ip, ttl) ==
    [name |-> hostString(hostname, zone), ip |-> ipParse(ip), ttl |-> ttl]

createPtr(zone, hostname, ip, ttl) ==
    [name |-> hostString(hostname, zone), ip |-> ipParse(ip), ttl |-> ttl]

\* let [name, protocol, ...rest] = service.split('.'), each of name and
\* protocol prefixed with '_' unless it starts with one.  The caller has
\* checked that the label has a second component.
srvService(service, zone) ==
    LET parts == Split(service, ".")
        name == IF StartsWith(parts[1], "_") THEN parts[1] ELSE "_" \o parts[1]
        protocol == IF StartsWith(parts[2], "_") THEN parts[2] ELSE "_" \o parts[2]
        rest == SubSeq(parts, 3, Len(parts))
    IN hostString(Join(<<name, protocol>> \o rest, "."), zone)

createSRV(zone, hostname, service, port, prio, weight, ttl) ==
    [name |-> hostString(hostname, zone), service |-> srvService(service, zone),
     prio |-> prio, weight |-> weight, port |-> port, ttl |-> ttl]

RefreshDefault == 7200
RetryDefault == 3600
ExpireDefault == 1209600
NrcTtlDefault == 3600
TtlDefault == 10800

\* A destructuring default applies when the property is undefined.
Default(v, d) == IF IsUndefined(v) THEN d ELSE v

\* Not the code: a faulty variant in which the caller's serial replaces a supplied one
createZoneFloorWins(name, soa, serialFloor) ==
    [name |-> name,
     nameserver |-> soa.nameserver,
     email |-> ReplaceFirst(soa.email, "@", "."),
     serial |-> Num(serialFloor),
     refresh |-> Default(soa.refresh, Num(RefreshDefault)),
     retry |-> Default(soa.retry, Num(RetryDefault)),
     expire |-> Default(soa.expire, Num(ExpireDefault)),
     nrc_ttl |-> Default(soa.nrc_ttl, Num(NrcTtlDefault)),
     ttl |-> Default(soa.ttl, Num(TtlDefault)),
     hosts |-> <<>>, ptrs |-> <<>>, ns |-> <<>>, mx |-> <<>>, srv |-> <<>>]

createZone(name, soa, serialFloor) ==
    [name |-> name,
     nameserver |-> soa.nameserver,
     email |-> ReplaceFirst(soa.email, "@", "."),
     serial |-> Default(soa.serial, Num(serialFloor)),
     refresh |-> Default(soa.refresh, Num(RefreshDefault)),
     retry |-> Default(soa.retry, Num(RetryDefault)),
     expire |-> Default(soa.expire, Num(ExpireDefault)),
     nrc_ttl |-> Default(soa.nrc_ttl, Num(NrcTtlDefault)),
     ttl |-> Default(soa.ttl, Num(TtlDefault)),
     hosts |-> <<>>, ptrs |-> <<>>, ns |-> <<>>, mx |-> <<>>, srv |-> <<>>]

-----------------------------------------------------------------------------
(* parse.js: parseZone.  The loops run over a state st = [zone, data, err]:*)
(* the zone under construction, the zone's input object (the loops pop and *)
(* shift the arrays of the input itself) and the error thrown, if any.     *)

Error(type, message) == [type |-> type, message |-> message]
Thrown(st) == ~IsUndefined(st.err)

\* const ttl = isNaN(info.at(-1)) ? undefined : info.pop();
PopTTL(info) ==
    IF isNaN(At(info, -1))
    THEN [ttl |-> Undefined, info |-> info]
    ELSE [ttl |-> info[Len(info)], info |-> Front(info)]

\* toArray returns the input's own array when the value is one, so what the
\* loop removed from `info` is removed from the input; a scalar is wrapped in
\* a fresh array and stays as it is.
WriteBack(val, info) == IF IsArr(val) THEN Arr(info) ELSE val

\* hostString(host, zone) of a host that is no string: host.endsWith(...) throws
NotAFunction == Error("TypeError", "host.endsWith is not a function")

\* ips.forEach of the addresses loop: per IP the host's record, then one per alias.
RECURSIVE AddressRecords(_, _, _, _, _)
AddressRecords(name, host, ips, aliases, ttl) ==
    IF ips = <<>> THEN <<>>
    ELSE <<createA(name, host, Head(ips), ttl)>>
         \o [k \in 1..Len(aliases) |-> createA(name, aliases[k].str, Head(ips), ttl)]
         \o AddressRecords(name, host, Tail(ips), aliases, ttl)

\* Not the code: a faulty variant in which only the first IP of a hosts entry gets its PTR record
HostPtrsFirstOnly(name, host, ips, ttl) ==
    [k \in 1..(IF ips = <<>> THEN 0 ELSE 1) |-> createPtr(name, host, ips[k], ttl)]

\* zone.ptrs.push(createPtr(name, host, ip, ttl)) for every IP of a hosts entry
HostPtrs(name, host, ips, ttl) ==
    [k \in 1..Len(ips) |-> createPtr(name, host, ips[k], ttl)]

\* Not the code: a faulty variant in which the addresses loop pushes PTR records as the hosts loop does
AddressesEntryWithPtrs(st, name, i) ==
    LET e == st.data.addresses[i]
        p == PopTTL(toArray(e.val))
        ips == SelectSeq(p.info, isValid)
        aliases == SelectSeq(p.info, LAMBDA a : ~Includes(ips, a))
        data == [st.data EXCEPT !.addresses[i].val = WriteBack(e.val, p.info)]
    IN IF ips # <<>> /\ \E k \in 1..Len(aliases) : ~IsStr(aliases[k])
       THEN [st EXCEPT !.data = data, !.err = NotAFunction]
       ELSE [st EXCEPT !.data = data,
                       !.zone.hosts = @ \o AddressRecords(name, e.key, ips, aliases, p.ttl),
                       !.zone.ptrs = @ \o HostPtrs(name, e.key, ips, p.ttl)]

AddressesEntry(st, name, i) ==
    LET e == st.data.addresses[i]
        p == PopTTL(toArray(e.val))
        ips == SelectSeq(p.info, isValid)
        aliases == SelectSeq(p.info, LAMBDA a : ~Includes(ips, a))
        data == [st.data EXCEPT !.addresses[i].val = WriteBack(e.val, p.info)]
    IN IF ips # <<>> /\ \E k \in 1..Len(aliases) : ~IsStr(aliases[k])
       THEN [st EXCEPT !.data = data, !.err = NotAFunction]
       ELSE [st EXCEPT !.data = data,
                       !.zone.hosts = @ \o AddressRecords(name, e.key, ips, aliases, p.ttl)]

RECURSIVE AddressesLoop(_, _, _)
AddressesLoop(st, name, i) ==
    IF Thrown(st) \/ i > Len(st.data.addresses) THEN st
    ELSE AddressesLoop(AddressesEntry(st, name, i), name, i + 1)

HostsEntry(st, name, i) ==
    LET e == st.data.hosts[i]
        p == PopTTL(toArray(e.val))
        ips == SelectSeq(p.info, isValid)
        aliases == SelectSeq(p.info, LAMBDA a : ~Includes(ips, a))
        data == [st.data EXCEPT !.hosts[i].val = WriteBack(e.val, p.info)]
    IN IF ips # <<>> /\ \E k \in 1..Len(aliases) : ~IsStr(aliases[k])
       THEN [st EXCEPT !.data = data, !.err = NotAFunction]
       ELSE [st EXCEPT !.data = data,
                       !.zone.hosts = @ \o AddressRecords(name, e.key, ips, aliases, p.ttl),
                       !.zone.ptrs = @ \o HostPtrs(name, e.key, ips, p.ttl)]

RECURSIVE HostsLoop(_, _, _)
HostsLoop(st, name, i) ==
    IF Thrown(st) \/ i > Len(st.data.hosts) THEN st
    ELSE HostsLoop(HostsEntry(st, name, i), name, i + 1)

\* if (!zone.ptrs.find((ptr) => ptr.ip.toString() === ipString))
HasPtr(zone, ipString) == \E k \in 1..Len(zone.ptrs) : zone.ptrs[k].ip.str = ipString

\* ips.forEach of the nameserver and mx branches: the A/AAAA record, and the
\* PTR record unless the zone has one of the same IP string.
RECURSIVE InducedRecords(_, _, _, _, _)
InducedRecords(zone, name, host, ips, ttl) ==
    IF ips = <<>> THEN zone
    ELSE LET ip == Head(ips)
             z1 == [zone EXCEPT !.hosts = Append(@, createA(name, host, ip, ttl))]
             z2 == IF HasPtr(z1, ipParse(ip).str) THEN z1
                   ELSE [z1 EXCEPT !.ptrs = Append(@, createPtr(name, host, ip, ttl))]
         IN InducedRecords(z2, name, host, Tail(ips), ttl)

\* Not the code: a faulty variant in which the host list is never found to hold the name
HasHostNever(zone, fqName) == FALSE

\* if (zone.hosts.find((h) => h.name === record.name)) continue;
HasHost(zone, fqName) == \E k \in 1..Len(zone.hosts) : zone.hosts[k].name = fqName

\* nameserver given as an array: NS records only, no ttl
RECURSIVE NameserverArray(_, _, _)
NameserverArray(st, name, i) ==
    IF Thrown(st) \/ i > Len(st.data.nameserver.arr) THEN st
    ELSE LET host == st.data.nameserver.arr[i]
         IN IF ~IsStr(host) THEN [st EXCEPT !.err = NotAFunction]
            ELSE NameserverArray(
                     [st EXCEPT !.zone.ns = Append(@, createNameserver(name, host.str, Undefined))],
                     name, i + 1)

NameserverEntry(st, name, i) ==
    LET e == st.data.nameserver.obj[i]
        p == PopTTL(toArray(e.val))
        ips == SelectSeq(p.info, isValid)
        ns == createNameserver(name, e.key, p.ttl)
        data == [st.data EXCEPT !.nameserver.obj[i].val = WriteBack(e.val, p.info)]
        z1 == [st.zone EXCEPT !.ns = Append(@, ns)]
    IN [st EXCEPT !.data = data,
                  !.zone = IF ips # <<>> /\ ~HasHost(z1, ns.name)
                           THEN InducedRecords(z1, name, e.key, ips, p.ttl)
                           ELSE z1]

RECURSIVE NameserverLoop(_, _, _)
NameserverLoop(st, name, i) ==
    IF Thrown(st) \/ i > Len(st.data.nameserver.obj) THEN st
    ELSE NameserverLoop(NameserverEntry(st, name, i), name, i + 1)

NameserverSection(st, name) ==
    IF Thrown(st) \/ IsUndefined(st.data.nameserver) THEN st
    ELSE IF IsArr(st.data.nameserver) THEN NameserverArray(st, name, 1)
    ELSE NameserverLoop(st, name, 1)

\* `First Argument to MX is prio (Number): ${zone} ${host} ${prio}` where
\* `zone` is the zone object under construction.
MxMessage(zone, host, prio) ==
    "First Argument to MX is prio (Number): " \o ObjectToString \o " " \o host
        \o " " \o ToStr(prio)

MxEntry(st, name, i) ==
    LET e == st.data.mx[i]
        info0 == toArray(e.val)
        prio == At(info0, 0)
        shifted == IF info0 = <<>> THEN <<>> ELSE Tail(info0)
        p == PopTTL(shifted)
        ips == SelectSeq(p.info, isValid)
        record == createMX(name, e.key, prio, p.ttl)
        z1 == [st.zone EXCEPT !.mx = Append(@, record)]
    IN IF isNaN(prio)
       THEN [st EXCEPT !.data.mx[i].val = WriteBack(e.val, shifted),
                       !.err = Error("Error", MxMessage(st.zone, e.key, prio))]
       ELSE [st EXCEPT !.data.mx[i].val = WriteBack(e.val, p.info),
                       !.zone = IF ips # <<>> /\ ~HasHost(z1, record.name)
                                THEN InducedRecords(z1, name, e.key, ips, p.ttl)
                                ELSE z1]

RECURSIVE MxLoop(_, _, _)
MxLoop(st, name, i) ==
    IF Thrown(st) \/ i > Len(st.data.mx) THEN st
    ELSE MxLoop(MxEntry(st, name, i), name, i + 1)

SrvMessage(info) ==
    "Couldn't identify SRV record. It's [port, name] or [prio, weight, port, name]. Given: "
        \o JoinTokens(info, ",")

\* The positional shape the srv loop recognises in what the TTL pop left:
\* "full" (three leading numbers), "short" (a number, then no number), or none.
SrvShape(info) ==
    IF ~isNaN(At(info, 0)) /\ ~isNaN(At(info, 1)) /\ ~isNaN(At(info, 2)) THEN "full"
    ELSE IF ~isNaN(At(info, 0)) /\ isNaN(At(info, 1)) THEN "short"
    ELSE "none"

\* The characters of a string, as String.prototype.at reads them.
Chars(s) == [k \in 1..Len(s) |-> Str(SubSeq(s, k, k))]

\* srv[service] given as a string: info.at reads its characters, and pop and
\* shift, which a string does not have, throw where the code reaches them.
SrvOfString(st, s) ==
    IF ~isNaN(At(Chars(s), -1))
    THEN [st EXCEPT !.err = Error("TypeError", "info.pop is not a function")]
    ELSE IF SrvShape(Chars(s)) = "none"
    THEN [st EXCEPT !.err = Error("Error", SrvMessage(<<Str(s)>>))]
    ELSE [st EXCEPT !.err = Error("TypeError", "info.shift is not a function")]

\* hostString(host, zone) of an undefined host: host.endsWith cannot be read
CannotReadEndsWith ==
    Error("TypeError", "Cannot read properties of undefined (reading 'endsWith')")

SrvEntry(st, name, i) ==
    LET e == st.data.srv[i]
        p == PopTTL(e.val.arr)
        shape == SrvShape(p.info)
        prio == IF shape = "full" THEN p.info[1] ELSE Num(5)
        weight == IF shape = "full" THEN p.info[2] ELSE Num(0)
        port == IF shape = "full" THEN p.info[3] ELSE p.info[1]
        rest == IF shape = "full" THEN SubSeq(p.info, 4, Len(p.info)) ELSE Tail(p.info)
        host == At(rest, 0)
    IN IF IsStr(e.val) THEN SrvOfString(st, e.val.str)
       ELSE IF ~IsArr(e.val)
       THEN [st EXCEPT !.err = Error("TypeError", "info.at is not a function")]
       ELSE IF shape = "none"
       THEN [st EXCEPT !.data.srv[i].val = Arr(p.info),
                       !.err = Error("Error", SrvMessage(p.info))]
       ELSE IF Len(Split(e.key, ".")) < 2
       THEN [st EXCEPT !.data.srv[i].val = Arr(rest),
                       !.err = Error("TypeError", "Cannot read properties of undefined (reading 'startsWith')")]
       ELSE IF IsUndefined(host)
       THEN [st EXCEPT !.data.srv[i].val = Arr(rest), !.err = CannotReadEndsWith]
       ELSE IF ~IsStr(host)
       THEN [st EXCEPT !.data.srv[i].val = Arr(rest), !.err = NotAFunction]
       ELSE [st EXCEPT !.data.srv[i].val = Arr(rest),
                       !.zone.srv = Append(@, createSRV(name, host.str, e.key, port,
                                                        prio, weight, p.ttl))]

RECURSIVE SrvLoop(_, _, _)
SrvLoop(st, name, i) ==
    IF Thrown(st) \/ i > Len(st.data.srv) THEN st
    ELSE SrvLoop(SrvEntry(st, name, i), name, i + 1)

\* The body of the map callback: one zone of the input.
ParseOneZone(name, data, serialFloor) ==
    LET st0 == [zone |-> createZone(name, data.soa, serialFloor), data |-> data,
                err |-> Undefined]
        st1 == AddressesLoop(st0, name, 1)
        st2 == HostsLoop(st1, name, 1)
        st3 == NameserverSection(st2, name)
        st4 == MxLoop(st3, name, 1)
    IN SrvLoop(st4, name, 1)

\* Object.keys(zoneData).map(...): zone after zone; a throw ends the call with
\* no value, and leaves the input as the loops have changed it so far.
RECURSIVE ParseFrom(_, _, _, _)
ParseFrom(zd, serialFloor, i, zones) ==
    IF i > Len(zd) THEN [ok |-> TRUE, zones |-> zones, err |-> Undefined, data |-> zd]
    ELSE LET st == ParseOneZone(zd[i].name, zd[i].data, serialFloor)
             zd1 == [zd EXCEPT ![i].data = st.data]
         IN IF Thrown(st)
            THEN [ok |-> FALSE, zones |-> <<>>, err |-> st.err, data |-> zd1]
            ELSE ParseFrom(zd1, serialFloor, i + 1, Append(zones, st.zone))

parseZone(zd, serialFloor) == ParseFrom(zd, serialFloor, 1, <<>>)

-----------------------------------------------------------------------------
(* unbound.js: the renderer.  The sink holds the lines written, each with  *)
(* its columns as handed to writeLine and the text the writes add up to.   *)

LOCAL_DATA == "local-data:     "
LOCAL_ZONE == "local-zone:     "
LOCAL_PTR == "local-data-ptr: "
INDENT == "    "

CmdWidth == 15
LeftWidth == 40
TtlWidth == 6
MiddleWidth == 7

\* if (ttl): undefined, 0 and the empty string are falsy
Truthy(v) ==
    IF IsNum(v) THEN v.num # 0
    ELSE IF IsStr(v) THEN v.str # ""
    ELSE ~IsUndefined(v)

writeLine(cmd, left, ttl, middle, right) ==
    [cmd |-> cmd, left |-> left, ttl |-> ttl, middle |-> middle, right |-> right,
     text |-> INDENT \o PadEnd(cmd, CmdWidth) \o " \"" \o PadEnd(left, LeftWidth) \o " "
              \o (IF Truthy(ttl) THEN PadEnd(ToStr(ttl), TtlWidth) ELSE PadEnd("", TtlWidth))
              \o " " \o PadEnd(Trim(middle), MiddleWidth) \o " " \o right \o "\"\n"]

localData(left, ttl, middle, right) == writeLine(LOCAL_DATA, left, ttl, middle, right)

localPtr(ip, ttl, name) == writeLine(LOCAL_PTR, ip, ttl, "", name)

\* writer.write of a whole line that writeLine did not lay out
rawLine(cmd, left, right, text) ==
    [cmd |-> cmd, left |-> left, ttl |-> Undefined, middle |-> "", right |-> right,
     text |-> text]

headerLine == rawLine("server:", "", "", "server:\n")

zoneLine(zone) ==
    rawLine(LOCAL_ZONE, zone.name, "static",
            "\n" \o INDENT \o LOCAL_ZONE \o " " \o zone.name \o " static\n")

\* soa reads ns[0].name: the caller has checked that the zone has an NS record
soa(data) ==
    localData(data.name \o ".", data.ttl, "IN SOA",
              data.ns[1].name \o " " \o ReplaceFirst(data.email, "@", ".") \o ". "
                  \o ToStr(data.serial) \o " " \o ToStr(data.refresh) \o " "
                  \o ToStr(data.retry) \o " " \o ToStr(data.expire) \o " "
                  \o ToStr(data.nrc_ttl))

entry(data) ==
    localData(data.name, data.ttl,
              "IN " \o (IF data.ip.kind = "ipv4" THEN "A   " ELSE "AAAA"), data.ip.str)

ptr_record(data) == localPtr(data.ip.str, data.ttl, data.name)

ns_record(data) == localData(data.zone \o ".", data.ttl, "IN NS", data.name)

mx_record(data) ==
    localData(data.zone \o ".", data.ttl, "IN MX", ToStr(data.prio) \o " " \o data.name)

srv_record(data) ==
    localData(data.service, data.ttl, "IN SRV",
              ToStr(data.prio) \o " " \o ToStr(data.weight) \o " " \o ToStr(data.port)
                  \o " " \o data.name)

\* Not the code: a faulty variant in which the MX records are written before the NS records
zoneLinesMxFirst(zone) ==
    <<zoneLine(zone), soa(zone)>>
        \o [k \in 1..Len(zone.mx) |-> mx_record(zone.mx[k])]
        \o [k \in 1..Len(zone.ns) |-> ns_record(zone.ns[k])]
        \o [k \in 1..Len(zone.hosts) |-> entry(zone.hosts[k])]
        \o [k \in 1..Len(zone.ptrs) |-> ptr_record(zone.ptrs[k])]
        \o [k \in 1..Len(zone.srv) |-> srv_record(zone.srv[k])]

\* The body of zones.forEach, once soa has not thrown.
zoneLines(zone) ==
    <<zoneLine(zone), soa(zone)>>
        \o [k \in 1..Len(zone.ns) |-> ns_record(zone.ns[k])]
        \o [k \in 1..Len(zone.mx) |-> mx_record(zone.mx[k])]
        \o [k \in 1..Len(zone.hosts) |-> entry(zone.hosts[k])]
        \o [k \in 1..Len(zone.ptrs) |-> ptr_record(zone.ptrs[k])]
        \o [k \in 1..Len(zone.srv) |-> srv_record(zone.srv[k])]

RECURSIVE unboundFrom(_, _, _)
unboundFrom(zones, i, lines) ==
    IF i > Len(zones) THEN [lines |-> lines, err |-> Undefined]
    ELSE IF zones[i].ns = <<>>
    THEN [lines |-> Append(lines, zoneLine(zones[i])),
          err |-> Error("TypeError", "Cannot read properties of undefined (reading 'name')")]
    ELSE unboundFrom(zones, i + 1, lines \o zoneLines(zones[i]))

unbound(zones) == unboundFrom(zones, 1, <<headerLine>>)

NewWriter == [lines |-> <<>>, err |-> Undefined]

-----------------------------------------------------------------------------
(* The inputs.  An input is built from a sequence of placements, each one  *)
(* entry of one section of one zone; the order of the placements of a      *)
(* section is the order of its keys.                                       *)

MaxEntries == 2
MaxCalls == 2

ZoneNames == <<"home.arpa", "lan">>

Ip4a == Str("192.168.1.10")
Ip4b == Str("192.168.1.1")
Ip6a == Str("fd00::10")
Ip6alt == Str("fd00:0::10")
Ttl == Num(300)

OmittedSoa ==
    [nameserver |-> "ns1.home.arpa", email |-> "admin@some.email.address",
     serial |-> Undefined, refresh |-> Undefined, retry |-> Undefined,
     expire |-> Undefined, nrc_ttl |-> Undefined, ttl |-> Undefined]

SoaOf ==
    << OmittedSoa,
       [OmittedSoa EXCEPT !.serial = Num(2020010100), !.refresh = Num(60),
                          !.ttl = Num(0)] >>

P(zone, sec, key, val) == [zone |-> zone, sec |-> sec, key |-> key, val |-> val]

AddressPlacements ==
    { P(1, "addresses", "extern", Ip4a),
      P(1, "addresses", "extern", Arr(<<Str("alias"), Ip4b, Ttl>>)),
      P(1, "addresses", "ns1", Ip4a) }

HostPlacements ==
    { P(1, "hosts", "mickey", v) :
        v \in { Arr(<<Str("little"), Str("mouse"), Ip4a, Ip6a>>),
                Arr(<<Ip4a, Ttl>>),
                Arr(<<Ip6alt>>),
                Arr(<<Ip4a, Ip4a>>),
                Ip4b,
                Arr(<<Str("ns1"), Ip4b>>),
                Arr(<<Str("little")>>) } }
    \cup { P(1, "hosts", "ns1", Arr(<<Ip4a, Ttl>>)),
           P(1, "hosts", "ns1", Arr(<<Str("little"), Ip6a>>)),
           P(1, "hosts", ".", Ip4b),
           P(1, "hosts", "", Ip4b),
           P(2, "hosts", "mickey", Arr(<<Ip4a, Ttl>>)) }

NameserverPlacements ==
    { P(z, "nameserverArray", "", Arr(<<Str("ns1"), Str("ns2.example.")>>)) : z \in {1, 2} }
    \cup { P(1, "nameserver", "ns1", Arr(<<Ip4b, Ip6a>>)),
           P(1, "nameserver", "ns1", Arr(<<Ip4a, Ttl>>)),
           P(1, "nameserver", "ns1", Arr(<<>>)),
           P(1, "nameserver", "ns1", Arr(<<Ip4b, Str("")>>)),
           P(1, "nameserver", "mickey", Arr(<<Ip4a>>)),
           P(2, "nameserver", "ns1", Arr(<<Ip4b, Ttl>>)) }

MxPlacements ==
    { P(1, "mx", "mail", v) :
        v \in { Arr(<<Num(10), Ip4b, Ip6a>>),
                Arr(<<Num(10)>>),
                Num(10),
                Arr(<<Num(10), Ip4a, Ttl>>),
                Arr(<<Ip4a>>),
                Arr(<<>>) } }
    \cup { P(1, "mx", "ns1", Arr(<<Num(20), Ip4b>>)),
           P(2, "mx", "mail", Arr(<<Str("mail")>>)) }

SrvPlacements ==
    { P(1, "srv", "_sip._tcp", v) :
        v \in { Arr(<<Num(5060), Str("sipserver")>>),
                Arr(<<Num(5), Num(0), Num(5060), Str("sipserver")>>),
                Arr(<<Num(5060), Str("sipserver"), Ttl>>),
                Arr(<<Num(5060), Str("sipserver"), Str("extra")>>),
                Arr(<<Num(5), Num(0), Num(5060), Str("sipserver"), Str("extra")>>),
                Arr(<<Num(5), Num(0), Num(5060)>>),
                Arr(<<Num(5060), Ttl>>),
                Arr(<<Str("sipserver"), Num(5060), Str("x")>>),
                Arr(<<Str("sipserver")>>),
                Arr(<<>>),
                Arr(<<Num(5), Num(0), Num(5060), Str("")>>),
                Str("sipserver"),
                Str("5060"),
                Num(5060) } }
    \cup { P(1, "srv", "sip.tcp", Arr(<<Num(5), Num(0), Num(5060), Str("sipserver")>>)),
           P(1, "srv", "_sip", Arr(<<Num(5060), Str("sipserver")>>)),
           P(1, "srv", "_sip", Arr(<<Num(5), Num(0), Num(5060), Str("sipserver")>>)),
           P(2, "srv", "_sip._tcp", Arr(<<Num(5060), Str("sipserver"), Ttl>>)) }

Placements ==
    AddressPlacements \cup HostPlacements \cup NameserverPlacements
        \cup MxPlacements \cup SrvPlacements

SectionRank(sec) ==
    CASE sec = "addresses" -> 1
      [] sec = "hosts" -> 2
      [] sec = "nameserverArray" -> 3
      [] sec = "nameserver" -> 3
      [] sec = "mx" -> 4
      [] sec = "srv" -> 5

\* A placement may follow the sequence ps: its key is new in its section, its
\* zone's nameserver stays an array or a mapping, and sections are listed zone
\* by zone in one fixed order (the order of two entries matters within a
\* section only).
MayFollow(ps, p) ==
    /\ \A i \in 1..Len(ps) :
          /\ <<ps[i].zone, ps[i].sec, ps[i].key>> # <<p.zone, p.sec, p.key>>
          /\ ~(ps[i].zone = p.zone /\ {ps[i].sec, p.sec} = {"nameserver", "nameserverArray"})
    /\ ps # <<>> =>
          LET last == ps[Len(ps)]
          IN \/ last.zone < p.zone
             \/ last.zone = p.zone /\ SectionRank(last.sec) <= SectionRank(p.sec)

RECURSIVE Section(_, _, _)
Section(ps, zone, sec) ==
    IF ps = <<>> THEN <<>>
    ELSE (IF Head(ps).zone = zone /\ Head(ps).sec = sec
          THEN <<[key |-> Head(ps).key, val |-> Head(ps).val]>> ELSE <<>>)
         \o Section(Tail(ps), zone, sec)

ZoneInput(ps, z) ==
    LET array == Section(ps, z, "nameserverArray")
        mapping == Section(ps, z, "nameserver")
    IN [name |-> ZoneNames[z],
        data |-> [soa |-> SoaOf[z],
                  addresses |-> Section(ps, z, "addresses"),
                  hosts |-> Section(ps, z, "hosts"),
                  nameserver |-> IF array # <<>> THEN array[1].val
                                 ELSE IF mapping # <<>> THEN [obj |-> mapping]
                                 ELSE Undefined,
                  mx |-> Section(ps, z, "mx"),
                  srv |-> Section(ps, z, "srv")]]

\* The first zone always, the second when something is placed in it.
BuildInput(ps) ==
    IF \E i \in 1..Len(ps) : ps[i].zone = 2
    THEN <<ZoneInput(ps, 1), ZoneInput(ps, 2)>>
    ELSE <<ZoneInput(ps, 1)>>

RECURSIVE PlacementSeqs(_)
PlacementSeqs(n) ==
    IF n = 0 THEN {<<>>}
    ELSE LET shorter == PlacementSeqs(n - 1)
         IN shorter \cup
            { Append(x[1], x[2]) :
                x \in { y \in shorter \X Placements :
                          Len(y[1]) = n - 1 /\ MayFollow(y[1], y[2]) } }

\* The README's configuration (test1.yaml), alone and followed by a second zone.
Readme ==
    << P(1, "addresses", "extern", Str("172.16.0.1")),
       P(1, "addresses", "extern2", Str("fdff::1")),
       P(1, "addresses", "extern3", Arr(<<Str("172.16.0.2 fdff::2")>>)),
       P(1, "hosts", "mickey", Arr(<<Str("little"), Str("mouse"), Ip4a, Ip6a>>)),
       P(1, "hosts", "mini", Arr(<<Str("192.168.1.11"), Str("fd00::11")>>)),
       P(1, "nameserver", "ns1", Arr(<<Ip4b, Str("fd00::1")>>)),
       P(1, "mx", "mail", Arr(<<Num(10), Str("192.168.1.2"), Str("fd00::2")>>)) >>

SecondZone ==
    << P(2, "hosts", "mickey", Arr(<<Ip4a, Ttl>>)),
       P(2, "nameserverArray", "", Arr(<<Str("ns1"), Str("ns2.example.")>>)),
       P(2, "mx", "mail", Arr(<<Num(10), Ip4a, Ttl>>)),
       P(2, "srv", "_sip._tcp", Arr(<<Num(5060), Str("sipserver"), Ttl>>)) >>

\* A nameserver and two mail exchangers next to a host: one IP of the
\* nameserver has the host's PTR already, one mail exchanger has the
\* nameserver's name.
Shared ==
    << P(1, "hosts", "mickey", Arr(<<Ip4a, Ttl>>)),
       P(1, "nameserver", "ns1", Arr(<<Ip4b, Ip4a>>)),
       P(1, "mx", "ns1", Arr(<<Num(20), Ip6a>>)),
       P(1, "mx", "mail", Arr(<<Num(10), Ip6a>>)) >>

Scenarios == { BuildInput(Readme), BuildInput(Readme \o SecondZone), BuildInput(Shared) }

Inputs == { BuildInput(ps) : ps \in PlacementSeqs(MaxEntries) } \cup Scenarios

SerialFloors == {2023031800}

-----------------------------------------------------------------------------
(* The library used directly: parseZone called on an input value, possibly *)
(* again on the same value, and the result handed to unbound.              *)

Init ==
    /\ zoneData \in Inputs
    /\ SERIAL \in SerialFloors
    /\ calls = <<>>
    /\ writer = NewWriter
    /\ pc = "library"
    /\ clock = Undefined
    /\ serialFile = Undefined
    /\ runs = <<>>
    /\ options = Undefined

CallRecord(arg, serialFloor, r) ==
    [arg |-> arg, serial |-> serialFloor, ok |-> r.ok, zones |-> r.zones, err |-> r.err]

CallParseZone ==
    /\ pc = "library"
    /\ Len(calls) < MaxCalls
    /\ writer = NewWriter
    /\ LET r == parseZone(zoneData, SERIAL)
       IN /\ calls' = Append(calls, CallRecord(zoneData, SERIAL, r))
          /\ zoneData' = r.data
    /\ UNCHANGED <<SERIAL, writer, pc, clock, serialFile, runs, options>>

CallUnbound ==
    /\ pc = "library"
    /\ calls # <<>>
    /\ calls[Len(calls)].ok
    /\ writer = NewWriter
    /\ writer' = unbound(calls[Len(calls)].zones)
    /\ UNCHANGED <<zoneData, SERIAL, calls, pc, clock, serialFile, runs, options>>

Next == CallParseZone \/ CallUnbound

Spec == Init /\ [][Next]_vars

-----------------------------------------------------------------------------
(* index.js: the command line script.  A run computes the serial floor     *)
(* from the date and the serial file, writes it back, reads the input,     *)
(* parses it and renders the zones; an exception thrown by parseZone or    *)
(* unbound ends the process.                                               *)

MaxRuns == 3

\* new Date(): year, month (0-based) and day of the month
Dates ==
    { [y |-> 2023, m |-> 2, d |-> 18],
      [y |-> 2023, m |-> 2, d |-> 19],
      [y |-> 2022, m |-> 11, d |-> 31] }

DateSerial(now) == now.y * 1000000 + (now.m + 1) * 10000 + now.d * 100

Max(a, b) == IF a >= b THEN a ELSE b

\* existsSync(serial_file) ? Number(readFileSync(serial_file)) + 1 : 0, the
\* file holding a serial the script wrote or, cut short, nothing: Number('') is 0
NextPersisted(file) ==
    IF IsUndefined(file) THEN 0
    ELSE IF IsStr(file) THEN 1
    ELSE file.num + 1

serialFloor(now, file) == Max(DateSerial(now), NextPersisted(file))

NsArray(z) == P(z, "nameserverArray", "", Arr(<<Str("ns1"), Str("ns2.example.")>>))

\* The YAML documents the script is run on.
CliInputs ==
    { BuildInput(ps) :
        ps \in { <<P(1, "nameserver", "ns1", Arr(<<Ip4b, Ip6a>>)),
                   P(1, "mx", "mail", Arr(<<Num(10), Ip4b, Ip6a>>))>>,
                 <<NsArray(1), P(1, "hosts", "mickey", Arr(<<Ip4a, Ttl>>)), NsArray(2)>>,
                 <<NsArray(1), P(1, "mx", "mail", Arr(<<Ip4a>>))>>,
                 <<NsArray(1), P(2, "mx", "mail", Arr(<<Str("mail")>>))>>,
                 <<NsArray(1), P(1, "srv", "_sip._tcp", Arr(<<Num(5060), Str("sipserver")>>))>>,
                 <<NsArray(1), P(1, "srv", "_sip._tcp", Arr(<<>>))>>,
                 <<NsArray(1),
                   P(1, "srv", "_sip._tcp", Arr(<<Num(5060), Str("sipserver"), Str("extra")>>))>>,
                 <<P(1, "hosts", "mickey", Arr(<<Ip4a, Ttl>>))>> } }

\* program.opts(): the input (a readable document, or a file that cannot be
\* opened), the output (stdout or a file) and the format
Options ==
    { [input |-> "ok", output |-> "stdout", format |-> "unbound"],
      [input |-> "ok", output |-> "file", format |-> "unbound"],
      [input |-> "ok", output |-> "stdout", format |-> "nsd"],
      [input |-> "ok", output |-> "file", format |-> "nsd"],
      [input |-> "missing", output |-> "stdout", format |-> "unbound"] }

\* the serial file when its writing has been cut short: opened, and so empty
Truncated == Str("")

InitCli ==
    /\ zoneData = <<>>
    /\ SERIAL = 0
    /\ calls = <<>>
    /\ writer = NewWriter
    /\ pc = "exit"
    /\ clock \in Dates
    /\ serialFile \in {Undefined, Num(2023031805)}
    /\ runs = <<>>
    /\ options = Undefined

\* The system date changes between two runs, forwards or backwards.
SetClock ==
    /\ pc = "exit"
    /\ Len(runs) < MaxRuns
    /\ clock' \in Dates \ {clock}
    /\ UNCHANGED <<zoneData, SERIAL, calls, writer, pc, serialFile, runs, options>>

\* A new process, up to `await writeFile(serial_file, ...)`: the options, the
\* streams, SERIAL, and the serial file opened for writing, which empties it.
RunStart ==
    /\ pc = "exit"
    /\ Len(runs) < MaxRuns
    /\ options' \in Options
    /\ LET floor == serialFloor(clock, serialFile)
       IN /\ SERIAL' = floor
          /\ runs' = Append(runs, [serial |-> floor, today |-> DateSerial(clock),
                                   previous |-> serialFile])
    /\ serialFile' = Truncated
    /\ writer' = NewWriter
    /\ calls' = <<>>
    /\ zoneData' = <<>>
    /\ pc' = "write"
    /\ UNCHANGED clock

\* writeFile completes: the serial file holds SERIAL
WriteDone ==
    /\ pc = "write"
    /\ serialFile' = Num(SERIAL)
    /\ pc' = "read"
    /\ UNCHANGED <<zoneData, SERIAL, calls, writer, clock, runs, options>>

\* The input stream fails to open: its 'error' event ends the process, while
\* writeFile is pending or after it.
StreamError ==
    /\ pc \in {"write", "read"}
    /\ options.input = "missing"
    /\ pc' = "exit"
    /\ UNCHANGED <<zoneData, SERIAL, calls, writer, clock, serialFile, runs, options>>

\* const zoneData = yaml.parse(...)
RunRead ==
    /\ pc = "read"
    /\ options.input = "ok"
    /\ zoneData' \in CliInputs
    /\ pc' = "parse"
    /\ UNCHANGED <<SERIAL, calls, writer, clock, serialFile, runs, options>>

\* const zones = parse(zoneData, SERIAL): an exception is not caught
RunParse ==
    /\ pc = "parse"
    /\ LET r == parseZone(zoneData, SERIAL)
       IN /\ calls' = <<CallRecord(zoneData, SERIAL, r)>>
          /\ zoneData' = r.data
          /\ pc' = IF r.ok THEN "render" ELSE "exit"
    /\ UNCHANGED <<SERIAL, writer, clock, serialFile, runs, options>>

\* What the output holds when the process ends.  stdout is written
\* synchronously.  A file stream hands its first write to the file system and
\* buffers the following ones until that write is done: when unbound throws,
\* the process ends with at most the first write in the file.
Flushed(w) ==
    IF options.output = "file" /\ ~IsUndefined(w.err)
    THEN { [lines |-> SubSeq(w.lines, 1, k), err |-> w.err] : k \in {0, 1} }
    ELSE {w}

\* switch (options.format): unbound(writer, zones) for 'unbound', nothing for 'nsd'
RunRender ==
    /\ pc = "render"
    /\ IF options.format = "unbound"
       THEN writer' \in Flushed(unbound(calls[1].zones))
       ELSE writer' = writer
    /\ pc' = "exit"
    /\ UNCHANGED <<zoneData, SERIAL, calls, clock, serialFile, runs, options>>

NextCli ==
    SetClock \/ RunStart \/ WriteDone \/ StreamError \/ RunRead \/ RunParse \/ RunRender

SpecCli == InitCli /\ [][NextCli]_vars

-----------------------------------------------------------------------------
(* What the properties below speak of: an entry's value list as the        *)
(* specification classifies it, and the calls and zones of the log.        *)

Numeric(v) == IsNum(v) \/ (IsStr(v) /\ AllDigits(v.str))

\* the value list of an entry after removal of a trailing numeric TTL
ValueList(val) ==
    LET info == toArray(val)
    IN IF info # <<>> /\ Numeric(info[Len(info)]) THEN Front(info) ELSE info

EntryIps(val) == SelectSeq(ValueList(val), isValid)
EntryAliases(val) == SelectSeq(ValueList(val), LAMBDA a : ~isValid(a))

\* N*M + M of one entry, and summed over the entries of a section
ForwardCount(val) == Len(EntryAliases(val)) * Len(EntryIps(val)) + Len(EntryIps(val))

RECURSIVE SumForward(_)
SumForward(entries) ==
    IF entries = <<>> THEN 0 ELSE ForwardCount(Head(entries).val) + SumForward(Tail(entries))

RECURSIVE SumIps(_)
SumIps(entries) ==
    IF entries = <<>> THEN 0 ELSE Len(EntryIps(Head(entries).val)) + SumIps(Tail(entries))

CallIds == 1..Len(calls)
ZoneIds(c) == 1..Len(c.arg)

MappingEntries(nameserver) ==
    IF IsUndefined(nameserver) \/ IsArr(nameserver) THEN <<>> ELSE nameserver.obj

-----------------------------------------------------------------------------
HostsEntryRecords(zin, zout, k) ==
    LET e == zin.data.hosts[k]
        ips == EntryIps(e.val)
        aliases == EntryAliases(e.val)
        labels == <<e.key>> \o [a \in 1..Len(aliases) |-> ToStr(aliases[a])]
        N == Len(aliases)
        M == Len(ips)
        before == SubSeq(zin.data.hosts, 1, k - 1)
        offA == SumForward(zin.data.addresses) + SumForward(before)
        offP == SumIps(before)
    IN /\ Len(zout.hosts) >= offA + N * M + M
       /\ Len(zout.ptrs) >= offP + M
       /\ \A m \in 1..M :
             /\ \A l \in 1..(N + 1) :
                   LET r == zout.hosts[offA + (m - 1) * (N + 1) + l]
                   IN r.name = hostString(labels[l], zin.name)
                      /\ r.ip = ipParse(ips[m])
             /\ zout.ptrs[offP + m].name = hostString(e.key, zin.name)
             /\ zout.ptrs[offP + m].ip = ipParse(ips[m])

\* C1: a hosts entry with N aliases and M valid IPs (after removal of a
\* trailing numeric TTL) appends exactly N*M + M A/AAAA records, one for the
\* host label and one per alias for each IP, and exactly M PTR records, each
\* naming the fully-qualified host label.
C1_HostsEntryRecords ==
    \A i \in CallIds : calls[i].ok =>
        \A z \in ZoneIds(calls[i]) :
            LET zin == calls[i].arg[z]
                zout == calls[i].zones[z]
            IN /\ \A k \in 1..Len(zin.data.hosts) : HostsEntryRecords(zin, zout, k)
               /\ (zin.data.mx = <<>> /\ MappingEntries(zin.data.nameserver) = <<>>) =>
                     /\ Len(zout.hosts) = SumForward(zin.data.addresses)
                                              + SumForward(zin.data.hosts)
                     /\ Len(zout.ptrs) = SumIps(zin.data.hosts)

\* The README's entry: two aliases and two IPs give six forward records and two PTRs.
C1_Witness ==
    \E i \in CallIds : calls[i].ok /\
        \E z \in ZoneIds(calls[i]) :
            LET zin == calls[i].arg[z]
                zout == calls[i].zones[z]
            IN /\ Len(zin.data.hosts) = 1
               /\ Len(EntryAliases(zin.data.hosts[1].val)) = 2
               /\ Len(EntryIps(zin.data.hosts[1].val)) = 2
               /\ zin.data.addresses = <<>>
               /\ Len(zout.hosts) >= 6
               /\ Len(zout.ptrs) >= 2

\* C2: in every zone parseZone returns, no two PTR records have the same
\* resolved IP string.
C2_PtrIpsUnique ==
    \A i \in CallIds : calls[i].ok =>
        \A z \in ZoneIds(calls[i]) :
            LET ptrs == calls[i].zones[z].ptrs
            IN \A a, b \in 1..Len(ptrs) : a < b => ptrs[a].ip.str # ptrs[b].ip.str

\* C3: a second call of parseZone on the same input value with the same SERIAL
\* has the outcome of the first: the same records in the same order.
C3_SecondCallSame ==
    Len(calls) >= 2 =>
        /\ calls[2].serial = calls[1].serial
        /\ calls[2].ok = calls[1].ok
        /\ calls[2].zones = calls[1].zones

-----------------------------------------------------------------------------
\* C4
WithoutAddresses(zd) == [z \in 1..Len(zd) |-> [zd[z] EXCEPT !.data.addresses = <<>>]]

\* the names the nameserver mapping and the mx section qualify their keys to
InducingNames(zin) ==
    { hostString(MappingEntries(zin.data.nameserver)[k].key, zin.name) :
        k \in 1..Len(MappingEntries(zin.data.nameserver)) }
    \cup { hostString(zin.data.mx[k].key, zin.name) : k \in 1..Len(zin.data.mx) }

\* each addresses entry yields one A/AAAA record per IP for the host label plus
\* one per (alias, IP) pair: the records the zone's host list starts with
AddressesEntryRecords(zin, zout, k) ==
    LET e == zin.data.addresses[k]
        ips == EntryIps(e.val)
        aliases == EntryAliases(e.val)
        labels == <<e.key>> \o [a \in 1..Len(aliases) |-> ToStr(aliases[a])]
        N == Len(aliases)
        off == SumForward(SubSeq(zin.data.addresses, 1, k - 1))
    IN /\ Len(zout.hosts) >= off + ForwardCount(e.val)
       /\ \A m \in 1..Len(ips) : \A l \in 1..(N + 1) :
             LET r == zout.hosts[off + (m - 1) * (N + 1) + l]
             IN r.name = hostString(labels[l], zin.name) /\ r.ip = ipParse(ips[m])

\* C4 as claimed: the PTR list is the one parseZone produces with the
\* addresses section removed, and every addresses entry yields its A/AAAA records.
C4_PtrsAsWithoutAddresses ==
    \A i \in CallIds : calls[i].ok =>
        LET without == parseZone(WithoutAddresses(calls[i].arg), calls[i].serial)
        IN \A z \in ZoneIds(calls[i]) :
              /\ without.ok
              /\ calls[i].zones[z].ptrs = without.zones[z].ptrs
              /\ \A k \in 1..Len(calls[i].arg[z].data.addresses) :
                    AddressesEntryRecords(calls[i].arg[z], calls[i].zones[z], k)

\* C4 amended: the addresses section never adds a PTR record: every resolved
\* IP of the PTR list has a PTR in the list produced with the addresses section
\* removed, and the two lists are equal unless an addresses record has the
\* fully-qualified name of a nameserver-mapping or mx key (whose A/AAAA and PTR
\* records are then skipped); every addresses entry yields one A/AAAA record per
\* IP for the host label plus one per (alias, IP) pair.
C4_AddressesAddNoPtr ==
    \A i \in CallIds : calls[i].ok =>
        LET without == parseZone(WithoutAddresses(calls[i].arg), calls[i].serial)
        IN \A z \in ZoneIds(calls[i]) :
              LET zin == calls[i].arg[z]
                  zout == calls[i].zones[z]
                  addressNames == { zout.hosts[k].name :
                                      k \in 1..SumForward(zin.data.addresses) }
              IN /\ without.ok
                 /\ \A k \in 1..Len(zout.ptrs) :
                       \E j \in 1..Len(without.zones[z].ptrs) :
                           without.zones[z].ptrs[j].ip.str = zout.ptrs[k].ip.str
                 /\ addressNames \cap InducingNames(zin) = {} =>
                       zout.ptrs = without.zones[z].ptrs
                 /\ \A k \in 1..Len(zin.data.addresses) :
                       AddressesEntryRecords(zin, zout, k)

\* an addresses entry with an alias and an IP next to a hosts entry with PTRs
C4_Witness ==
    \E i \in CallIds : calls[i].ok /\
        \E z \in ZoneIds(calls[i]) :
            LET zin == calls[i].arg[z]
            IN /\ \E k \in 1..Len(zin.data.addresses) :
                     /\ EntryAliases(zin.data.addresses[k].val) # <<>>
                     /\ EntryIps(zin.data.addresses[k].val) # <<>>
               /\ Len(calls[i].zones[z].hosts) > SumForward(zin.data.addresses)
               /\ calls[i].zones[z].ptrs # <<>>

-----------------------------------------------------------------------------
\* C5: an SRV entry is accepted only as [port, targetHost] (prio 5, weight 0)
\* or [prio, weight, port, targetHost], after removal of a trailing numeric
\* TTL; any other arity makes parseZone raise.
C5_SrvShapes ==
    \A i \in CallIds :
        /\ (\E z \in ZoneIds(calls[i]) : \E k \in 1..Len(calls[i].arg[z].data.srv) :
               Len(ValueList(calls[i].arg[z].data.srv[k].val)) \notin {2, 4})
           => ~calls[i].ok
        /\ calls[i].ok =>
              \A z \in ZoneIds(calls[i]) :
                  /\ Len(calls[i].zones[z].srv) = Len(calls[i].arg[z].data.srv)
                  /\ \A k \in 1..Len(calls[i].arg[z].data.srv) :
                        LET list == ValueList(calls[i].arg[z].data.srv[k].val)
                            r == calls[i].zones[z].srv[k]
                        IN /\ Len(list) = 2 =>
                                 r.prio = Num(5) /\ r.weight = Num(0) /\ r.port = list[1]
                           /\ Len(list) = 4 =>
                                 r.prio = list[1] /\ r.weight = list[2] /\ r.port = list[3]

SrvWellShaped(val) ==
    LET list == ValueList(val)
        Name(v) == IsStr(v) /\ ~Numeric(v)
    IN \/ Len(list) = 2 /\ Numeric(list[1]) /\ Name(list[2])
       \/ /\ Len(list) = 4
          /\ Numeric(list[1]) /\ Numeric(list[2]) /\ Numeric(list[3]) /\ Name(list[4])

MxPrioMissing(val) == toArray(val) = <<>> \/ ~Numeric(toArray(val)[1])

Underscored(part) == IF StartsWith(part, "_") THEN part ELSE "_" \o part

ExpectedService(label, zone) ==
    LET parts == Split(label, ".")
    IN hostString(
           Join([k \in 1..Len(parts) |-> IF k <= 2 THEN Underscored(parts[k]) ELSE parts[k]],
                "."),
           zone)

\* C6: every SRV service label, a single-component one included, yields an SRV
\* record whose service is the label split on '.', name and protocol prefixed
\* with '_' unless so prefixed, rejoined and qualified against the zone.
C6_SrvService ==
    \A i \in CallIds :
        (\A z \in ZoneIds(calls[i]) :
            /\ \A k \in 1..Len(calls[i].arg[z].data.srv) :
                  SrvWellShaped(calls[i].arg[z].data.srv[k].val)
            /\ \A k \in 1..Len(calls[i].arg[z].data.mx) :
                  ~MxPrioMissing(calls[i].arg[z].data.mx[k].val))
        => /\ calls[i].ok
           /\ \A z \in ZoneIds(calls[i]) :
                 /\ Len(calls[i].zones[z].srv) = Len(calls[i].arg[z].data.srv)
                 /\ \A k \in 1..Len(calls[i].arg[z].data.srv) :
                       calls[i].zones[z].srv[k].service =
                           ExpectedService(calls[i].arg[z].data.srv[k].key,
                                           calls[i].arg[z].name)

MxErrorPrefix == "First Argument to MX is prio (Number): "

HasBadMx(zin) == \E k \in 1..Len(zin.data.mx) : MxPrioMissing(zin.data.mx[k].val)

\* C7: an mx entry whose first element is absent or not numeric makes parseZone
\* raise an error whose message identifies the zone name and the host key; a
\* numeric first element yields exactly one MX record (zone, fully-qualified
\* host, prio).
C7_MxPriority ==
    \A i \in CallIds :
        LET c == calls[i]
            badZones == { z \in ZoneIds(c) : HasBadMx(c.arg[z]) }
        IN /\ badZones # {} => ~c.ok
           /\ (~c.ok /\ Len(c.err.message) >= Len(MxErrorPrefix)
                     /\ SubSeq(c.err.message, 1, Len(MxErrorPrefix)) = MxErrorPrefix)
              => LET z == CHOOSE y \in badZones : \A x \in badZones : y <= x
                     k == CHOOSE a \in 1..Len(c.arg[z].data.mx) :
                              /\ MxPrioMissing(c.arg[z].data.mx[a].val)
                              /\ \A b \in 1..(a - 1) : ~MxPrioMissing(c.arg[z].data.mx[b].val)
                 IN /\ Contains(c.err.message, c.arg[z].name)
                    /\ Contains(c.err.message, c.arg[z].data.mx[k].key)
           /\ c.ok =>
                 \A z \in ZoneIds(c) :
                     /\ Len(c.zones[z].mx) = Len(c.arg[z].data.mx)
                     /\ \A k \in 1..Len(c.arg[z].data.mx) :
                           /\ c.zones[z].mx[k].zone = c.arg[z].name
                           /\ c.zones[z].mx[k].name =
                                  hostString(c.arg[z].data.mx[k].key, c.arg[z].name)
                           /\ c.zones[z].mx[k].prio = toArray(c.arg[z].data.mx[k].val)[1]

-----------------------------------------------------------------------------
Malformed(zd) ==
    \E z \in 1..Len(zd) :
        \/ HasBadMx(zd[z])
        \/ \E k \in 1..Len(zd[z].data.srv) : ~SrvWellShaped(zd[z].data.srv[k].val)

\* C8: if any entry of any zone is malformed (an MX without numeric priority,
\* an SRV that is neither [port, target] nor [prio, weight, port, target]), the
\* run aborts: parseZone returns no zone list and nothing is written to the sink.
C8_MalformedAborts ==
    (calls # <<>> /\ Malformed(calls[1].arg)) =>
        /\ ~calls[1].ok
        /\ calls[1].zones = <<>>
        /\ writer.lines = <<>>

\* the serial the run before the i-th persisted: for the first run, what the
\* serial file held (Undefined when there was none)
PersistedBefore(i) == IF i = 1 THEN runs[1].previous ELSE Num(runs[i - 1].serial)

\* C9: the serial floor of a run is max(YYYYMMDD00 of the current date,
\* persisted serial + 1) and is written back to the serial file, so no run has
\* a lower serial than an earlier run, whatever the clock does and however
\* the earlier runs ended.
C9_SerialNeverLower ==
    /\ \A i \in 1..Len(runs) :
          runs[i].serial =
              Max(runs[i].today,
                  IF IsUndefined(PersistedBefore(i)) THEN 0 ELSE PersistedBefore(i).num + 1)
    /\ \A i, j \in 1..Len(runs) : i < j => runs[i].serial <= runs[j].serial
    /\ (runs # <<>> /\ pc # "write") => serialFile = Num(runs[Len(runs)].serial)
    /\ pc \in {"read", "parse", "render"} => SERIAL = runs[Len(runs)].serial

-----------------------------------------------------------------------------
LineGroup(line) ==
    IF line.cmd = "server:" THEN 0
    ELSE IF line.cmd = LOCAL_ZONE THEN 1
    ELSE IF line.cmd = LOCAL_PTR THEN 6
    ELSE CASE Trim(line.middle) = "IN SOA" -> 2
           [] Trim(line.middle) = "IN NS" -> 3
           [] Trim(line.middle) = "IN MX" -> 4
           [] Trim(line.middle) \in {"IN A", "IN AAAA"} -> 5
           [] Trim(line.middle) = "IN SRV" -> 7

\* the lines written for the z-th zone: from its declaration to the next one
ZoneSegment(lines, z) ==
    LET decls == { i \in 1..Len(lines) : lines[i].cmd = LOCAL_ZONE }
        NthDecl(n) == CHOOSE i \in decls : Cardinality({ j \in decls : j <= i }) = n
        first == NthDecl(z)
        last == IF z < Cardinality(decls) THEN NthDecl(z + 1) - 1 ELSE Len(lines)
    IN SubSeq(lines, first, last)

GroupOf(segment, g) == SelectSeq(segment, LAMBDA line : LineGroup(line) = g)

OnlySection(zin, sec) ==
    [zin EXCEPT !.data.addresses = IF sec = "addresses" THEN @ ELSE <<>>,
                !.data.hosts = IF sec = "hosts" THEN @ ELSE <<>>,
                !.data.nameserver = Undefined,
                !.data.mx = <<>>,
                !.data.srv = <<>>]

\* the host list of a zone is the records of the addresses section, then those
\* of the hosts section, then records named after nameserver and mx keys
HostListOrder(zin, zout, serial) ==
    LET fromAddresses == parseZone(<<OnlySection(zin, "addresses")>>, serial).zones[1].hosts
        fromHosts == parseZone(<<OnlySection(zin, "hosts")>>, serial).zones[1].hosts
        n == Len(fromAddresses) + Len(fromHosts)
    IN /\ Len(zout.hosts) >= n
       /\ SubSeq(zout.hosts, 1, n) = fromAddresses \o fromHosts
       /\ \A k \in (n + 1)..Len(zout.hosts) : zout.hosts[k].name \in InducingNames(zin)

\* C10: for each zone, in input order, unbound writes the zone-declaration
\* line, the SOA record, the NS records, the MX records, the A/AAAA records
\* (those of the addresses section, then those of the hosts section, then those
\* induced by nameserver and mx entries) and the PTR records, each list in its
\* order; no line of a later group or zone precedes one of an earlier.
C10_RenderOrder ==
    writer.lines # <<>> =>
        LET lines == writer.lines
            call == calls[Len(calls)]
            declared == Cardinality({ i \in 1..Len(lines) : lines[i].cmd = LOCAL_ZONE })
            complete == IF IsUndefined(writer.err) THEN declared ELSE declared - 1
        IN /\ LineGroup(lines[1]) = 0
           /\ \A i \in 2..Len(lines) : LineGroup(lines[i]) >= 1
           /\ \A i \in 2..(Len(lines) - 1) :
                 LineGroup(lines[i + 1]) = 1 \/ LineGroup(lines[i]) <= LineGroup(lines[i + 1])
           /\ declared <= Len(call.zones)
           /\ IsUndefined(writer.err) => declared = Len(call.zones)
           /\ \A z \in 1..declared :
                 /\ call.zones[z].name = call.arg[z].name
                 /\ ZoneSegment(lines, z)[1].left = call.arg[z].name
           /\ \A z \in 1..Len(call.zones) :
                 HostListOrder(call.arg[z], call.zones[z], call.serial)
           /\ \A z \in 1..complete :
                 LET zone == call.zones[z]
                     segment == ZoneSegment(lines, z)
                     nsLines == GroupOf(segment, 3)
                     mxLines == GroupOf(segment, 4)
                     aLines == GroupOf(segment, 5)
                     ptrLines == GroupOf(segment, 6)
                 IN /\ LineGroup(segment[1]) = 1
                    /\ LineGroup(segment[2]) = 2
                    /\ Len(GroupOf(segment, 2)) = 1
                    /\ [k \in 1..Len(nsLines) |-> nsLines[k].right]
                           = [k \in 1..Len(zone.ns) |-> zone.ns[k].name]
                    /\ [k \in 1..Len(mxLines) |-> mxLines[k].right]
                           = [k \in 1..Len(zone.mx) |->
                                 ToStr(zone.mx[k].prio) \o " " \o zone.mx[k].name]
                    /\ [k \in 1..Len(aLines) |-> <<aLines[k].left, aLines[k].right>>]
                           = [k \in 1..Len(zone.hosts) |->
                                 <<zone.hosts[k].name, zone.hosts[k].ip.str>>]
                    /\ [k \in 1..Len(ptrLines) |-> <<ptrLines[k].left, ptrLines[k].right>>]
                           = [k \in 1..Len(zone.ptrs) |->
                                 <<zone.ptrs[k].ip.str, zone.ptrs[k].name>>]

\* a complete rendering of two zones with NS, MX, A/AAAA and PTR lines, the
\* A/AAAA records coming from the addresses section, the hosts section and from
\* nameserver or mx entries
C10_Witness ==
    /\ writer.lines # <<>>
    /\ IsUndefined(writer.err)
    /\ Len(calls[Len(calls)].zones) = 2
    /\ \A g \in 1..6 : \E i \in 1..Len(writer.lines) : LineGroup(writer.lines[i]) = g
    /\ \E z \in 1..Len(calls[Len(calls)].zones) :
          LET zin == calls[Len(calls)].arg[z]
          IN /\ SumForward(zin.data.addresses) > 0
             /\ SumForward(zin.data.hosts) > 0
             /\ Len(calls[Len(calls)].zones[z].hosts)
                    > SumForward(zin.data.addresses) + SumForward(zin.data.hosts)

-----------------------------------------------------------------------------
\* the zones of the rendered call whose SOA line has been written
RenderedZones ==
    IF writer.lines = <<>> THEN {}
    ELSE LET declared == Cardinality({ i \in 1..Len(writer.lines) :
                                          writer.lines[i].cmd = LOCAL_ZONE })
         IN 1..(IF IsUndefined(writer.err) THEN declared ELSE declared - 1)

\* the SOA fields as the specification resolves them
ResolvedSoaTail(soaIn, serial) ==
    ReplaceFirst(soaIn.email, "@", ".") \o ". "
        \o ToStr(Default(soaIn.serial, Num(serial))) \o " "
        \o ToStr(Default(soaIn.refresh, Num(RefreshDefault))) \o " "
        \o ToStr(Default(soaIn.retry, Num(RetryDefault))) \o " "
        \o ToStr(Default(soaIn.expire, Num(ExpireDefault))) \o " "
        \o ToStr(Default(soaIn.nrc_ttl, Num(NrcTtlDefault)))

\* C11: the SOA line of a rendered zone has the value
\* "<primary nameserver> <email with dots>. <serial> <refresh> <retry> <expire>
\* <nrc_ttl>", the primary nameserver being the one the zone's soa section
\* declares (as declared, or with its terminating dot) and the other fields
\* the zone's resolved SOA fields.
C11_SoaValue ==
    \A z \in RenderedZones :
        LET call == calls[Len(calls)]
            soaIn == call.arg[z].data.soa
            line == ZoneSegment(writer.lines, z)[2]
            tail == ResolvedSoaTail(soaIn, call.serial)
        IN /\ Trim(line.middle) = "IN SOA"
           /\ line.left = call.arg[z].name \o "."
           /\ line.right \in { soaIn.nameserver \o " " \o tail,
                               soaIn.nameserver \o ". " \o tail }

-----------------------------------------------------------------------------
\* a number, or a string that spells one
NumericValue(v) == IsNum(v) \/ (IsStr(v) /\ v.str # "" /\ AllDigits(v.str))

\* the ttl an entry's value list declares, and the list without it
DeclaredTtl(list) ==
    IF list # <<>> /\ NumericValue(list[Len(list)]) THEN list[Len(list)] ELSE Undefined

WithoutTtl(list) ==
    IF list # <<>> /\ NumericValue(list[Len(list)]) THEN Front(list) ELSE list

\* the value list of an mx entry after its priority
AfterPrio(val) == IF toArray(val) = <<>> THEN <<>> ELSE Tail(toArray(val))

\* the entries that may induce A/AAAA and PTR records, in the order parseZone
\* meets them: the keys of the nameserver mapping, then those of mx
InducingEntries(zin) ==
    [k \in 1..Len(MappingEntries(zin.data.nameserver)) |->
        [name |-> hostString(MappingEntries(zin.data.nameserver)[k].key, zin.name),
         list |-> toArray(MappingEntries(zin.data.nameserver)[k].val)]]
    \o [k \in 1..Len(zin.data.mx) |->
        [name |-> hostString(zin.data.mx[k].key, zin.name),
         list |-> AfterPrio(zin.data.mx[k].val)]]

\* the ttl declared by the first entry of that name that carries an IP
InducedTtl(zin, name) ==
    LET es == InducingEntries(zin)
        with == { j \in 1..Len(es) : es[j].name = name /\ \E x \in 1..Len(es[j].list) :
                                                             isValid(es[j].list[x]) }
    IN IF with = {} THEN Undefined
       ELSE DeclaredTtl(es[CHOOSE j \in with : \A x \in with : j <= x].list)

\* the ttl of the records of the k-th entry of the addresses or hosts section,
\* whose A/AAAA records start after `off` records of the host list
ForwardTtl(zout, e, off) ==
    \A n \in 1..ForwardCount(e.val) :
        off + n <= Len(zout.hosts) => zout.hosts[off + n].ttl = DeclaredTtl(toArray(e.val))

\* what parseZone left of an array-valued entry: the list without its ttl
LeftInInput(before, after) ==
    \A k \in 1..Len(before) :
        IsArr(before[k].val) =>
            /\ k <= Len(after)
            /\ after[k].val = Arr(WithoutTtl(before[k].val.arr))

\* C12: for every entry of addresses, hosts, a nameserver mapping, mx and srv:
\* a numeric last element of the value list is removed from the list and is
\* the ttl of every record generated from the entry (A/AAAA, PTR, NS, MX, SRV);
\* when the last element is not numeric nothing is removed and the entry's
\* records have no ttl.
C12_TrailingTtl ==
    \A i \in CallIds : calls[i].ok =>
        \A z \in ZoneIds(calls[i]) :
            LET zin == calls[i].arg[z]
                zout == calls[i].zones[z]
                mapping == MappingEntries(zin.data.nameserver)
                nA == SumForward(zin.data.addresses)
                nH == SumForward(zin.data.hosts)
                nP == SumIps(zin.data.hosts)
            IN /\ \A k \in 1..Len(zin.data.addresses) :
                     ForwardTtl(zout, zin.data.addresses[k],
                                SumForward(SubSeq(zin.data.addresses, 1, k - 1)))
               /\ \A k \in 1..Len(zin.data.hosts) :
                     LET e == zin.data.hosts[k]
                         offP == SumIps(SubSeq(zin.data.hosts, 1, k - 1))
                     IN /\ ForwardTtl(zout, e,
                                      nA + SumForward(SubSeq(zin.data.hosts, 1, k - 1)))
                        /\ \A n \in 1..Len(EntryIps(e.val)) :
                              offP + n <= Len(zout.ptrs) =>
                                  zout.ptrs[offP + n].ttl = DeclaredTtl(toArray(e.val))
               /\ \A k \in 1..Len(mapping) :
                     k <= Len(zout.ns) /\ zout.ns[k].ttl = DeclaredTtl(toArray(mapping[k].val))
               /\ \A k \in 1..Len(zin.data.mx) :
                     k <= Len(zout.mx) /\ zout.mx[k].ttl = DeclaredTtl(AfterPrio(zin.data.mx[k].val))
               /\ \A k \in 1..Len(zin.data.srv) :
                     k <= Len(zout.srv)
                         /\ zout.srv[k].ttl = DeclaredTtl(toArray(zin.data.srv[k].val))
               /\ \A k \in (nA + nH + 1)..Len(zout.hosts) :
                     zout.hosts[k].ttl = InducedTtl(zin, zout.hosts[k].name)
               /\ \A k \in (nP + 1)..Len(zout.ptrs) :
                     zout.ptrs[k].ttl = InducedTtl(zin, zout.ptrs[k].name)
               /\ i = Len(calls) =>
                     /\ LeftInInput(zin.data.addresses, zoneData[z].data.addresses)
                     /\ LeftInInput(zin.data.hosts, zoneData[z].data.hosts)
                     /\ LeftInInput(mapping, MappingEntries(zoneData[z].data.nameserver))

-----------------------------------------------------------------------------
\* a resolved SOA field: the supplied value, or the default when it is omitted
Resolved(supplied, default) == IF IsUndefined(supplied) THEN Num(default) ELSE supplied

\* C13: createZone gives each of refresh, retry, expire, nrc_ttl and ttl that
\* the soa object omits its default (7200, 3600, 1209600, 3600, 10800), an
\* omitted serial the caller's SERIAL, and every supplied field exactly the
\* supplied value, a supplied serial lower than SERIAL included.
C13_SoaDefaults ==
    \A i \in CallIds : calls[i].ok =>
        \A z \in ZoneIds(calls[i]) :
            LET soaIn == calls[i].arg[z].data.soa
                zout == calls[i].zones[z]
            IN /\ zout.serial = Resolved(soaIn.serial, calls[i].serial)
               /\ zout.refresh = Resolved(soaIn.refresh, 7200)
               /\ zout.retry = Resolved(soaIn.retry, 3600)
               /\ zout.expire = Resolved(soaIn.expire, 1209600)
               /\ zout.nrc_ttl = Resolved(soaIn.nrc_ttl, 3600)
               /\ zout.ttl = Resolved(soaIn.ttl, 10800)

\* a call that returned a zone with every optional field omitted and a zone
\* that supplies a serial below SERIAL, a refresh and a ttl of 0
C13_Witness ==
    \E i \in CallIds :
        /\ calls[i].ok
        /\ \E z \in ZoneIds(calls[i]) :
              LET soaIn == calls[i].arg[z].data.soa
              IN /\ IsUndefined(soaIn.serial) /\ IsUndefined(soaIn.refresh)
                 /\ IsUndefined(soaIn.ttl)
                 /\ calls[i].zones[z].serial = Num(calls[i].serial)
        /\ \E z \in ZoneIds(calls[i]) :
              LET soaIn == calls[i].arg[z].data.soa
              IN /\ IsNum(soaIn.serial) /\ soaIn.serial.num < calls[i].serial
                 /\ IsNum(soaIn.refresh) /\ IsUndefined(soaIn.retry)
                 /\ soaIn.ttl = Num(0)
                 /\ calls[i].zones[z].serial = soaIn.serial
                 /\ calls[i].zones[z].ttl = Num(0)

-----------------------------------------------------------------------------
\* a canonical fully-qualified name of the zone: the bare zone name, or a name
\* that ends with one dot, does not start with a dot and has no two dots in a row
Canonical(n, zone) ==
    \/ n = zone
    \/ /\ EndsWith(n, ".")
       /\ ~StartsWith(n, ".")
       /\ ~Contains(n, "..")

\* the canonical name of a declared label
Qualified(label, zone) ==
    IF label = "." THEN zone
    ELSE IF label # "" /\ SubSeq(label, Len(label), Len(label)) = "." THEN label
    ELSE label \o "." \o zone \o "."

\* C14: every record parseZone produces has a canonical fully-qualified name
\* (and service, for SRV): the bare zone name for the root label ".", else
\* "label.zone." ending with one dot; no name has two dots in a row, starts
\* with a dot or lacks the terminating dot, whatever the declared label
\* (relative, dot-terminated or empty).
C14_CanonicalNames ==
    \A i \in CallIds : calls[i].ok =>
        \A z \in ZoneIds(calls[i]) :
            LET zin == calls[i].arg[z]
                zout == calls[i].zones[z]
                mapping == MappingEntries(zin.data.nameserver)
            IN /\ \A k \in 1..Len(zout.hosts) : Canonical(zout.hosts[k].name, zin.name)
               /\ \A k \in 1..Len(zout.ptrs) : Canonical(zout.ptrs[k].name, zin.name)
               /\ \A k \in 1..Len(zout.ns) : Canonical(zout.ns[k].name, zin.name)
               /\ \A k \in 1..Len(zout.mx) : Canonical(zout.mx[k].name, zin.name)
               /\ \A k \in 1..Len(zout.srv) :
                     /\ Canonical(zout.srv[k].name, zin.name)
                     /\ Canonical(zout.srv[k].service, zin.name)
               /\ \A k \in 1..Len(mapping) :
                     k <= Len(zout.ns) /\ zout.ns[k].name = Qualified(mapping[k].key, zin.name)
               /\ \A k \in 1..Len(zin.data.mx) :
                     k <= Len(zout.mx)
                         /\ zout.mx[k].name = Qualified(zin.data.mx[k].key, zin.name)

-----------------------------------------------------------------------------
\* name and address of a record
NameAndIp(r) == [name |-> r.name, ip |-> r.ip.str]

\* the A/AAAA and PTR records of a zone after the entries es[j..] of the
\* nameserver mapping and of mx, given those it had before them: an entry
\* with IPs whose name some A/AAAA record has adds nothing, any other adds an
\* A/AAAA record per IP and a PTR for each IP that has none
RECURSIVE AfterIps(_, _, _)
AfterIps(have, name, ips) ==
    IF ips = <<>> THEN have
    ELSE LET ip == ipParse(Head(ips)).str
             known == \E k \in 1..Len(have.ptrs) : have.ptrs[k].ip = ip
         IN AfterIps([hosts |-> Append(have.hosts, [name |-> name, ip |-> ip]),
                      ptrs |-> IF known THEN have.ptrs
                               ELSE Append(have.ptrs, [name |-> name, ip |-> ip])],
                     name, Tail(ips))

RECURSIVE AfterEntries(_, _, _)
AfterEntries(have, es, j) ==
    IF j > Len(es) THEN have
    ELSE LET ips == SelectSeq(WithoutTtl(es[j].list), isValid)
             taken == \E k \in 1..Len(have.hosts) : have.hosts[k].name = es[j].name
         IN AfterEntries(IF ips = <<>> \/ taken THEN have
                         ELSE AfterIps(have, es[j].name, ips),
                         es, j + 1)

\* C15: each key of a nameserver mapping yields one NS record and each key of
\* mx one MX record; an entry with IPs whose fully-qualified name the host
\* list already holds adds no A/AAAA and no PTR record, any other entry adds
\* one A/AAAA record per IP and a PTR record for each IP that has no PTR of
\* the same resolved IP string in the zone.  A nameserver given as a plain
\* sequence yields NS records only, without ttl.
C15_InducedRecords ==
    \A i \in CallIds : calls[i].ok =>
        \A z \in ZoneIds(calls[i]) :
            LET zin == calls[i].arg[z]
                zout == calls[i].zones[z]
                mapping == MappingEntries(zin.data.nameserver)
                nF == SumForward(zin.data.addresses) + SumForward(zin.data.hosts)
                nP == SumIps(zin.data.hosts)
                before == [hosts |-> [k \in 1..nF |-> NameAndIp(zout.hosts[k])],
                           ptrs |-> [k \in 1..nP |-> NameAndIp(zout.ptrs[k])]]
                after == AfterEntries(before, InducingEntries(zin), 1)
            IN /\ Len(zout.hosts) >= nF /\ Len(zout.ptrs) >= nP
               /\ Len(zout.mx) = Len(zin.data.mx)
               /\ [k \in 1..Len(zout.hosts) |-> NameAndIp(zout.hosts[k])] = after.hosts
               /\ [k \in 1..Len(zout.ptrs) |-> NameAndIp(zout.ptrs[k])] = after.ptrs
               /\ IF IsArr(zin.data.nameserver)
                  THEN zout.ns = [k \in 1..Len(zin.data.nameserver.arr) |->
                                     [zone |-> zin.name,
                                      name |-> Qualified(zin.data.nameserver.arr[k].str, zin.name),
                                      ttl |-> Undefined]]
                  ELSE Len(zout.ns) = Len(mapping)

\* a zone in which a nameserver entry got A records for both its IPs and a PTR
\* for the one IP no host had, and an mx entry of the nameserver's name got
\* neither, while another mx entry got both
C15_Witness ==
    \E i \in CallIds : calls[i].ok /\
        \E z \in ZoneIds(calls[i]) :
            LET zin == calls[i].arg[z]
                zout == calls[i].zones[z]
                es == InducingEntries(zin)
                nF == SumForward(zin.data.addresses) + SumForward(zin.data.hosts)
                nP == SumIps(zin.data.hosts)
            IN /\ \E a, b \in 1..Len(es) :
                     /\ a < b /\ es[a].name = es[b].name
                     /\ SelectSeq(es[a].list, isValid) # <<>>
                     /\ SelectSeq(es[b].list, isValid) # <<>>
                     /\ \E ip \in 1..Len(es[b].list) :
                           /\ isValid(es[b].list[ip])
                           /\ \A k \in 1..Len(zout.hosts) :
                                 zout.hosts[k].name = es[a].name
                                     => zout.hosts[k].ip # ipParse(es[b].list[ip])
               /\ nP > 0
               /\ Len(zout.ptrs) > nP
               /\ Len(zout.hosts) - nF > Len(zout.ptrs) - nP
               /\ Len(zout.mx) = 2 /\ Len(zout.ns) = 1

-----------------------------------------------------------------------------
\* C16: for every zone list parseZone returns without error, zones without NS
\* records included, unbound writes the "server:" header and, for every zone,
\* its zone-declaration line and its SOA line, and completes without raising.
C16_RenderCompletes ==
    writer.lines # <<>> =>
        LET call == calls[Len(calls)]
            declared == { i \in 1..Len(writer.lines) : writer.lines[i].cmd = LOCAL_ZONE }
        IN /\ IsUndefined(writer.err)
           /\ writer.lines[1].cmd = "server:"
           /\ Cardinality(declared) = Len(call.zones)
           /\ \A z \in 1..Len(call.zones) :
                 LET segment == ZoneSegment(writer.lines, z)
                 IN /\ segment[1].left = call.zones[z].name
                    /\ Len(segment) >= 2
                    /\ Trim(segment[2].middle) = "IN SOA"

====
